---- MODULE Spec2Model ----
(***************************************************************************)
(* A model of the pwptr command line task runner.                          *)
(*                                                                         *)
(*   SpecRun     the `run` command: parseTaskFiles, normalizeTaskSet and   *)
(*               the sequential task loop (src/unnamed/part_000 133-187,   *)
(*               279-294; the same code is in src/pwptr.js 47-99, 179-194) *)
(*   SpecConfig  configuration resolution, the top level of                *)
(*               src/unnamed/part_000 (lines 32-131)                       *)
(*   SpecCookies the `clear-cookies` command of src/pwptr.js (26-45,       *)
(*               134-149)                                                  *)
(*                                                                         *)
(* The three parts use disjoint variables; each specification leaves the   *)
(* variables of the other two at their idle values.                        *)
(***************************************************************************)
EXTENDS Integers, Sequences, FiniteSets, TLC

VARIABLES
  \* ---- run command ----
  rpc,                      \* position of the run handler
  exportedTasks,            \* own string keys of the array, in insertion order: <<[key, namespace]>>
  exportedTasksNamespaces,  \* own string keys of the namespaces array (value = the label, truthy)
  scanned,                  \* number of module entries parseTaskFiles has looked at
  request,                  \* argv.tasks
  argvRun,                  \* argv.screenshot and argv.close, the two flags the handler reads
  taskSet,                  \* the Set normalizeTaskSet returned, in iteration order
  returned,                 \* normalizeTaskSet returned a set
  warned,                   \* the 'Task run order no longer guaranteed' line was printed
  started,                  \* tasks whose run() was called, in call order
  running,                  \* the task whose run() promise is awaited, or NoTask
  pendingShot,              \* tasks whose p.screenshot() promise is still pending
  pendingClose,             \* tasks whose p.browser().close() promise is still pending
  rExited,                  \* process.exit was called by the run command
  rExitStatus,              \* its status
  rErrId,                   \* the identifier the error message names
  \* ---- configuration resolution ----
  cpc,                      \* position in the top-level script
  config,                   \* the config object, mutated in place
  userConfig,               \* the config as loaded from .pwptr.json ({} when there is none)
  fsDirs,                   \* the directories on disk
  created,                  \* the directories fs.mkdirSync has created
  extsChecked,              \* profiles the exts loop has entered
  dirsChecked,              \* profiles the profile-directory loop has handled
  denied,                   \* a mkdirSync failed although the parent exists and the target does not
  cExited,                  \* the process ended during resolution
  cExitStatus,              \* its status
  cErr,                     \* [kind, cite]: what was printed on the way out
  \* ---- clear-cookies command ----
  kpc,                      \* position of the clear-cookies handler
  argvModes,                \* argv.dev, argv.prod, argv.none
  cookieFile,               \* per mode: the state of its Default/Cookies file
  prompted,                 \* the modes whose confirmation was printed, in order
  answers,                  \* the line read for each prompt
  attempts,                 \* the fs.unlinkSync calls made: <<[mode, code]>>
  kExited,                  \* the process ended by process.exit
  kExitStatus               \* its status

runVars == <<rpc, exportedTasks, exportedTasksNamespaces, scanned, request, argvRun,
             taskSet, returned, warned, started, running, pendingShot, pendingClose,
             rExited, rExitStatus, rErrId>>

cfgVars == <<cpc, config, userConfig, fsDirs, created, extsChecked, dirsChecked, denied,
             cExited, cExitStatus, cErr>>

ckVars == <<kpc, argvModes, cookieFile, prompted, answers, attempts, kExited, kExitStatus>>

vars == <<runVars, cfgVars, ckVars>>

(***************************************************************************)
(* Bounds                                                                  *)
(***************************************************************************)
MaxTasks == 3     \* module entries scanned by parseTaskFiles
MaxReq == 2       \* identifiers in a run request
MaxProfiles == 2  \* profiles in the user configuration

(***************************************************************************)
(* Sequence helpers                                                        *)
(***************************************************************************)
Range(s) == {s[i] : i \in 1..Len(s)}

SeqsUpTo(S, n) == UNION {[1..k -> S] : k \in 0..n}

NoDup(s) == \A i, j \in 1..Len(s) : i # j => s[i] # s[j]

RECURSIVE SetOf(_)
\* new Set(seq): iteration order is the order of first insertion
SetOf(s) ==
  IF s = <<>> THEN <<>>
  ELSE LET init == SetOf(SubSeq(s, 1, Len(s) - 1))
           x == s[Len(s)]
       IN IF x \in Range(init) THEN init ELSE Append(init, x)

(***************************************************************************)
(* Identifiers                                                             *)
(***************************************************************************)
\* value.namespace of an entry that declares none: used as a property key it
\* is the string "undefined"
NoNs == "undefined"
NoTask == "-"

\* exportedTasks, exportedTasksNamespaces and taskNamespacesToExpand are JS
\* arrays used as hashes: a lookup arr[k] also finds the properties every
\* array inherits (push, forEach, constructor, toString, ...), and those are
\* truthy functions.  "push" stands for them.
ArrayInherited == {"push"}

\* Task names are taken not to look like array indices ("0", "1", ...), so
\* Object.entries(exportedTasks) lists them in insertion order.
TaskKeys == {"a", "b", "c", "g1", "push"}
NsLabels == {"g1", "push"}
ReqIds == {"a", "b", "c", "g1", "push"}

TaskNames == {exportedTasks[i].key : i \in 1..Len(exportedTasks)}

\* exportedTasks[k] is truthy
TaskTruthy(k) == k \in TaskNames \/ k \in ArrayInherited

\* exportedTasksNamespaces[k] is truthy
NsTruthy(k) == k \in exportedTasksNamespaces \/ k \in ArrayInherited

(***************************************************************************)
(* parseTaskFiles: one step per exported entry of the scanned modules      *)
(***************************************************************************)
\* if (exportedTasks[key] || exportedTasks[n])
ParseCollides(key, n) == TaskTruthy(key) \/ TaskTruthy(n)

ParseEntry ==
  /\ UNCHANGED <<cfgVars, ckVars>>
  /\ rpc = "parse"
  /\ scanned < MaxTasks
  /\ \E key \in TaskKeys, n \in NsLabels \cup {NoNs} :
       /\ scanned' = scanned + 1
       /\ IF ParseCollides(key, n)
          THEN /\ rpc' = "exited"
               /\ rExited' = TRUE
               /\ rExitStatus' = 1
               /\ rErrId' = key
               /\ UNCHANGED <<exportedTasks, exportedTasksNamespaces>>
          ELSE /\ exportedTasksNamespaces' =
                    IF n # NoNs THEN exportedTasksNamespaces \cup {n}
                    ELSE exportedTasksNamespaces
               /\ exportedTasks' = Append(exportedTasks, [key |-> key, namespace |-> n])
               /\ UNCHANGED <<rpc, rExited, rExitStatus, rErrId>>
  /\ UNCHANGED <<request, argvRun, taskSet, returned, warned, started, running,
                 pendingShot, pendingClose>>

\* the end of the directory listing: if (!Object.keys(exportedTasks).length)
\* (src/pwptr.js has no such test; its parseTaskFiles is otherwise the same)
ParseEnd ==
  /\ UNCHANGED <<cfgVars, ckVars>>
  /\ rpc = "parse"
  /\ IF Len(exportedTasks) = 0
     THEN /\ rpc' = "exited"
          /\ rExited' = TRUE
          /\ rExitStatus' = 1
     ELSE /\ rpc' = "normalize"
          /\ UNCHANGED <<rExited, rExitStatus>>
  /\ UNCHANGED <<exportedTasks, exportedTasksNamespaces, scanned, request, argvRun,
                 taskSet, returned, warned, started, running, pendingShot,
                 pendingClose, rErrId>>

(***************************************************************************)
(* normalizeTaskSet                                                        *)
(***************************************************************************)
\* the first forEach: the identifiers that pass neither lookup
Unresolved(tasks) == {i \in 1..Len(tasks) : ~TaskTruthy(tasks[i]) /\ ~NsTruthy(tasks[i])}

FirstUnresolved(tasks) ==
  CHOOSE i \in Unresolved(tasks) : \A j \in Unresolved(tasks) : i <= j

\* taskNamespacesToExpand[t] = true, for the t with exportedTasksNamespaces[t]
NamespacesToExpand(tasks) == {tasks[i] : i \in {j \in 1..Len(tasks) : NsTruthy(tasks[j])}}

\* taskNamespacesToExpand[value.namespace] is truthy (it is an array too)
ExpandTruthy(tasks, n) == n \in NamespacesToExpand(tasks) \/ n \in ArrayInherited

IsDirect(t) == ~NsTruthy(t)

IsExpanded(tasks, e) == ExpandTruthy(tasks, e.namespace)

KeyOf(e) == e.key

RECURSIVE MapKeys(_)
MapKeys(es) == IF es = <<>> THEN <<>> ELSE <<KeyOf(Head(es))>> \o MapKeys(Tail(es))

\* tasksToRun after both loops
TasksToRun(tasks) ==
  SelectSeq(tasks, IsDirect)
    \o MapKeys(SelectSeq(exportedTasks, LAMBDA e : IsExpanded(tasks, e)))

\* if (taskSet.size !== tasks.length)
WarnCondition(tasks) == Len(SetOf(TasksToRun(tasks))) # Len(tasks)

(***************************************************************************)
(* The run handler, from normalizeTaskSet to its first await               *)
(***************************************************************************)
RunNormalize ==
  /\ UNCHANGED <<cfgVars, ckVars>>
  /\ rpc = "normalize"
  /\ \E tasks \in SeqsUpTo(ReqIds, MaxReq), shot \in BOOLEAN, close \in BOOLEAN :
       /\ request' = tasks
       /\ argvRun' = [screenshot |-> shot, close |-> close]
       /\ IF Unresolved(tasks) # {}
          THEN /\ rpc' = "exited"
               /\ rExited' = TRUE
               /\ rExitStatus' = 1
               /\ rErrId' = tasks[FirstUnresolved(tasks)]
               /\ UNCHANGED <<taskSet, returned, warned, started, running>>
          ELSE LET set == SetOf(TasksToRun(tasks)) IN
               /\ taskSet' = set
               /\ returned' = TRUE
               /\ warned' = WarnCondition(tasks)
               /\ IF set = <<>>
                  THEN /\ rpc' = "done"
                       /\ UNCHANGED <<started, running>>
                  ELSE /\ rpc' = "await"
                       /\ started' = <<set[1]>>
                       /\ running' = set[1]
               /\ UNCHANGED <<rExited, rExitStatus, rErrId>>
  /\ UNCHANGED <<exportedTasks, exportedTasksNamespaces, scanned, pendingShot, pendingClose>>

\* (a run() that rejects or never settles is not modelled: the handler then
\* stops where it is)
\* the promise of exportedTasks[t].run() resolves: the handler resumes, calls
\* p.screenshot() and p.browser().close() without awaiting them, and goes on
\* to the next iteration, which calls the next task's run()
ShotsAfter(t) == IF argvRun.screenshot THEN pendingShot \cup {t} ELSE pendingShot

ClosesAfter(t) == IF argvRun.close THEN pendingClose \cup {t} ELSE pendingClose

RunResume ==
  /\ UNCHANGED <<cfgVars, ckVars>>
  /\ rpc = "await"
  /\ pendingShot' = ShotsAfter(running)
  /\ pendingClose' = ClosesAfter(running)
  /\ IF Len(started) < Len(taskSet)
     THEN /\ started' = Append(started, taskSet[Len(started) + 1])
          /\ running' = taskSet[Len(started) + 1]
          /\ UNCHANGED rpc
     ELSE /\ running' = NoTask
          /\ rpc' = "done"
          /\ UNCHANGED started
  /\ UNCHANGED <<exportedTasks, exportedTasksNamespaces, scanned, request, argvRun,
                 taskSet, returned, warned, rExited, rExitStatus, rErrId>>

\* a screenshot promise settles
ScreenshotDone ==
  /\ UNCHANGED <<cfgVars, ckVars>>
  /\ \E t \in pendingShot : pendingShot' = pendingShot \ {t}
  /\ UNCHANGED <<rpc, exportedTasks, exportedTasksNamespaces, scanned, request, argvRun,
                 taskSet, returned, warned, started, running, pendingClose,
                 rExited, rExitStatus, rErrId>>

\* a browser close promise settles
CloseDone ==
  /\ UNCHANGED <<cfgVars, ckVars>>
  /\ \E t \in pendingClose : pendingClose' = pendingClose \ {t}
  /\ UNCHANGED <<rpc, exportedTasks, exportedTasksNamespaces, scanned, request, argvRun,
                 taskSet, returned, warned, started, running, pendingShot,
                 rExited, rExitStatus, rErrId>>

RunIdle ==
  /\ rpc = "idle"
  /\ exportedTasks = <<>>
  /\ exportedTasksNamespaces = {}
  /\ scanned = 0
  /\ request = <<>>
  /\ argvRun = [screenshot |-> FALSE, close |-> FALSE]
  /\ taskSet = <<>>
  /\ returned = FALSE
  /\ warned = FALSE
  /\ started = <<>>
  /\ running = NoTask
  /\ pendingShot = {}
  /\ pendingClose = {}
  /\ rExited = FALSE
  /\ rExitStatus = 0
  /\ rErrId = NoTask

(***************************************************************************)
(* clear-cookies (src/pwptr.js)                                            *)
(***************************************************************************)
\* the handler's three ifs, in order
Modes == <<"dev", "prod", "none">>

ModeSet == {"dev", "prod", "none"}
Answers == {"y", "n", "Y", "EOF"}

\* the first mode at or after position i that argv asks for; 0 when none is left
NextRequested(i) ==
  LET left == {j \in i..Len(Modes) : argvModes[Modes[j]]}
  IN IF left = {} THEN 0 ELSE CHOOSE j \in left : \A k \in left : j <= k

\* fs.unlinkSync(file): what it does to a file in state st
UnlinkCode(st) ==
  CASE st = "present" -> "ok"
    [] st = "absent" -> "ENOENT"
    [] OTHER -> "EACCES"

\* a variant without the ENOENT case
UnlinkFatal_AnyFailure(code) == code # "ok"

\* the catch block of delFile: which failures end the process
UnlinkFatal(code) == code # "ok" /\ code # "ENOENT"

\* if (answer.value === 'y')
Confirmed(answer) == answer = "y"

\* the handler, or delFile returning into it, runs to the next delFile call:
\* the prompt is printed and the handler awaits the answer
PromptFrom(i) ==
  LET n == NextRequested(i) IN
  IF n = 0
  THEN /\ kpc' = "done"
       /\ UNCHANGED prompted
  ELSE /\ kpc' = "prompt"
       /\ prompted' = Append(prompted, Modes[n])

ClearCookies ==
  /\ UNCHANGED <<runVars, cfgVars>>
  /\ kpc = "start"
  /\ PromptFrom(1)
  /\ UNCHANGED <<argvModes, cookieFile, answers, attempts, kExited, kExitStatus>>

\* it.next() resolves with the line the user typed
DelFileAnswer ==
  /\ UNCHANGED <<runVars, cfgVars>>
  /\ kpc = "prompt"
  /\ \E answer \in Answers :
       LET m == prompted[Len(prompted)]
           code == UnlinkCode(cookieFile[m])
           pos == CHOOSE j \in 1..Len(Modes) : Modes[j] = m
       IN /\ answers' = Append(answers, answer)
          /\ IF Confirmed(answer)
             THEN /\ attempts' = Append(attempts, [mode |-> m, code |-> code])
                  /\ cookieFile' = IF code = "ok" THEN [cookieFile EXCEPT ![m] = "absent"]
                                   ELSE cookieFile
                  /\ IF UnlinkFatal(code)
                     THEN /\ kpc' = "exited"
                          /\ kExited' = TRUE
                          /\ kExitStatus' = 1
                          /\ UNCHANGED prompted
                     ELSE /\ PromptFrom(pos + 1)
                          /\ UNCHANGED <<kExited, kExitStatus>>
             ELSE /\ PromptFrom(pos + 1)
                  /\ UNCHANGED <<attempts, cookieFile, kExited, kExitStatus>>
  /\ UNCHANGED argvModes

CkIdle ==
  /\ kpc = "idle"
  /\ argvModes = [m \in ModeSet |-> FALSE]
  /\ cookieFile = [m \in ModeSet |-> "absent"]
  /\ prompted = <<>>
  /\ answers = <<>>
  /\ attempts = <<>>
  /\ kExited = FALSE
  /\ kExitStatus = 0

(***************************************************************************)
(* Configuration resolution (src/unnamed/part_000, top level)              *)
(***************************************************************************)
\* Paths are sequences of tokens: "/" , "." and names ("tasks", "{HOME}", ...)
\* that hold neither; "tasks../x" is <<"tasks", ".", ".", "/", "x">>.
\* A place on disk is the sequence of its path segments below the root.

\* typeof x === 'undefined'
Undef == <<"(undefined)">>

\* path.resolve(`${__dirname}/../..`)
configDir == <<"/", "base">>

\* process.env.HOME
Home == <<"/", "home">>

\* process.cwd()
Cwd == << <<"work">> >>

\* the files (not directories) on disk; resolution never creates or removes one
FsFiles == { << <<"base">>, <<"f">> >>, << <<"base">>, <<"ext">> >> }

RECURSIVE ReplaceHome(_)
\* p.replace('{HOME}', process.env.HOME): the first occurrence only
ReplaceHome(p) ==
  IF p = <<>> THEN <<>>
  ELSE IF Head(p) = "{HOME}" THEN Home \o Tail(p)
  ELSE <<Head(p)>> \o ReplaceHome(Tail(p))

RECURSIVE Segments(_)
\* the path split at "/", empty segments dropped
Segments(p) ==
  IF p = <<>> THEN <<>>
  ELSE IF Head(p) = "/" THEN Segments(Tail(p))
  ELSE LET cut == {i \in 1..Len(p) : p[i] = "/"}
           n == IF cut = {} THEN Len(p) + 1 ELSE CHOOSE i \in cut : \A j \in cut : i <= j
       IN <<SubSeq(p, 1, n - 1)>> \o Segments(SubSeq(p, n, Len(p)))

Parent(loc) == IF loc = <<>> THEN <<>> ELSE SubSeq(loc, 1, Len(loc) - 1)

RECURSIVE NormalizeSegs(_, _)
NormalizeSegs(segs, acc) ==
  IF segs = <<>> THEN acc
  ELSE IF Head(segs) = <<".">> THEN NormalizeSegs(Tail(segs), acc)
  ELSE IF Head(segs) = <<".", ".">> THEN NormalizeSegs(Tail(segs), Parent(acc))
  ELSE NormalizeSegs(Tail(segs), Append(acc, Head(segs)))

RECURSIVE JoinSegs(_)
JoinSegs(segs) == IF segs = <<>> THEN <<>> ELSE <<"/">> \o Head(segs) \o JoinSegs(Tail(segs))

\* path.resolve of an absolute path: normalised, no trailing slash
PathResolve(p) ==
  LET n == NormalizeSegs(Segments(p), <<>>) IN IF n = <<>> THEN <<"/">> ELSE JoinSegs(n)

\* /^(\.|\/)/
StartsWithDotOrSlash(p) == p # <<>> /\ p[1] \in {".", "/"}

\* /^\.{1,2}\//
StartsWithDotSlash(p) ==
  \/ Len(p) >= 2 /\ p[1] = "." /\ p[2] = "/"
  \/ Len(p) >= 3 /\ p[1] = "." /\ p[2] = "." /\ p[3] = "/"

IsAbsolute(p) == p # <<>> /\ p[1] = "/"

PrefixIfBare(p) == IF ~StartsWithDotOrSlash(p) THEN <<".", "/">> \o p ELSE p

ResolveIfRelative(p) ==
  IF StartsWithDotSlash(p) THEN PathResolve(configDir \o <<"/">> \o p) ELSE p

resolveConfigPath(p) == ResolveIfRelative(PrefixIfBare(ReplaceHome(p)))

(***************************************************************************)
(* The file system calls                                                   *)
(***************************************************************************)
RECURSIVE Walk(_, _, _)
\* the kernel's path walk: every step starts from an existing directory
Walk(segs, cur, dirs) ==
  IF segs = <<>> THEN [ok |-> TRUE, loc |-> cur]
  ELSE IF cur \notin dirs THEN [ok |-> FALSE, loc |-> cur]
  ELSE IF Head(segs) = <<".">> THEN Walk(Tail(segs), cur, dirs)
  ELSE IF Head(segs) = <<".", ".">> THEN Walk(Tail(segs), Parent(cur), dirs)
  ELSE Walk(Tail(segs), Append(cur, Head(segs)), dirs)

Locate(p, dirs) == Walk(IF IsAbsolute(p) THEN Segments(p) ELSE Cwd \o Segments(p), <<>>, dirs)

\* fs.existsSync(p)
ExistsSync(p, dirs) == Locate(p, dirs).ok /\ Locate(p, dirs).loc \in dirs \cup FsFiles

IsDirectory(p, dirs) == Locate(p, dirs).ok /\ Locate(p, dirs).loc \in dirs

\* fs.mkdirSync(p) can succeed: the parent is a directory and nothing is there
MkdirPossible(p, dirs) == Locate(p, dirs).ok /\ Locate(p, dirs).loc \notin dirs \cup FsFiles

(***************************************************************************)
(* Inputs: the user's .pwptr.json and the disk                             *)
(***************************************************************************)
ProfileKeys == <<"p1", "p2", "p3", "p4">>

EmptyArray == [kind |-> "array", paths |-> <<>>]

\* what a profile may give as "exts"; "omitted" leaves defaultProfileOpts.exts
ExtsInputs ==
  { [kind |-> "omitted", paths |-> <<>>],
    [kind |-> "string", paths |-> <<>>],
    [kind |-> "number", paths |-> <<>>],
    [kind |-> "null", paths |-> <<>>],
    [kind |-> "array", paths |-> << <<"ext">> >>],
    [kind |-> "array", paths |-> << <<"nope">> >>] }

ProfilesInputs ==
  UNION { {[i \in 1..n |-> [key |-> ProfileKeys[i], exts |-> f[i]]] : f \in [1..n -> ExtsInputs]}
          : n \in 0..MaxProfiles }

TasksDirInputs == {Undef, <<"tasks">>, <<".", "t">>, <<"/", "base", "/", "f">>}

TasksOutputDirInputs == {Undef, <<"out">>}

ProfilesDirInputs == {Undef, <<"prof">>, <<"{HOME}", "/", "prof">>}

UserConfigs ==
  { [tasksDir |-> t, tasksOutputDir |-> o, profilesDir |-> d, profilesGiven |-> g, profiles |-> ps] :
      t \in TasksDirInputs, o \in TasksOutputDirInputs, d \in ProfilesDirInputs,
      g \in {TRUE}, ps \in ProfilesInputs }
  \cup
  { [tasksDir |-> t, tasksOutputDir |-> o, profilesDir |-> d, profilesGiven |-> FALSE, profiles |-> <<>>] :
      t \in TasksDirInputs, o \in TasksOutputDirInputs, d \in ProfilesDirInputs }

BaseDirs == { <<>>, << <<"base">> >>, << <<"home">> >>, << <<"work">> >> }

TasksLoc == << <<"base">>, <<"tasks">> >>

Disks ==
  { BaseDirs,
    BaseDirs \cup {TasksLoc},
    BaseDirs \cup {TasksLoc, Append(TasksLoc, <<"output">>), << <<"base">>, <<"prof">> >>,
                   << <<"base">>, <<"prof">>, <<"p1">> >>},
    BaseDirs \cup {TasksLoc, << <<"work">>, <<".", "t">> >>},
    BaseDirs \cup {TasksLoc, << <<"base">>, <<"tasks", ".", ".">> >>} }

NoKey == "-"

(***************************************************************************)
(* The top-level script, block by block                                    *)
(***************************************************************************)
\* console.error(...); process.exit(1), or an uncaught exception (status 1 too)
Fatal(kind, cite) ==
  /\ cpc' = "exited"
  /\ cExited' = TRUE
  /\ cExitStatus' = 1
  /\ cErr' = [kind |-> kind, cite |-> cite]

Continue(next) ==
  /\ cpc' = next
  /\ UNCHANGED <<cExited, cExitStatus, cErr>>

\* if (!fs.existsSync(p)) { try { fs.mkdirSync(p) } catch (e) { ...; process.exit(1) } }
\* perm: whether the operating system lets this process create the directory
EnsureDir(p, perm, kind, next) ==
  IF ExistsSync(p, fsDirs)
  THEN /\ Continue(next)
       /\ UNCHANGED <<fsDirs, created, denied>>
  ELSE IF MkdirPossible(p, fsDirs) /\ perm
  THEN /\ fsDirs' = fsDirs \cup {Locate(p, fsDirs).loc}
       /\ created' = Append(created, Locate(p, fsDirs).loc)
       /\ Continue(next)
       /\ UNCHANGED denied
  ELSE /\ Fatal(kind, NoKey)
       /\ denied' = (denied \/ MkdirPossible(p, fsDirs))
       /\ UNCHANGED <<fsDirs, created>>

\* lines 46-51
TasksDirValue == IF config.tasksDir = Undef THEN configDir \o <<"/", "tasks">> ELSE config.tasksDir

\* a variant that creates a missing tasks directory, as the script does for
\* the other two directories
ResolveTasksDir_Creates ==
  /\ UNCHANGED <<runVars, ckVars>>
  /\ cpc = "tasksDir"
  /\ LET t == resolveConfigPath(TasksDirValue) IN
       /\ config' = [config EXCEPT !.tasksDir = t]
       /\ EnsureDir(t, TRUE, "tasksDir", "tasksOutputDir")
  /\ UNCHANGED <<userConfig, extsChecked, dirsChecked>>

\* lines 46-55: a missing tasks directory is fatal
ResolveTasksDir ==
  /\ UNCHANGED <<runVars, ckVars>>
  /\ cpc = "tasksDir"
  /\ LET t == resolveConfigPath(TasksDirValue) IN
       /\ config' = [config EXCEPT !.tasksDir = t]
       /\ IF ~ExistsSync(t, fsDirs)
          THEN Fatal("tasksDir", NoKey)
          ELSE Continue("tasksOutputDir")
  /\ UNCHANGED <<userConfig, fsDirs, created, extsChecked, dirsChecked, denied>>

\* lines 57-62
TasksOutputDirValue ==
  IF config.tasksOutputDir = Undef THEN config.tasksDir \o <<"/", "output">>
  ELSE config.tasksOutputDir

\* lines 57-70
ResolveTasksOutputDir ==
  /\ UNCHANGED <<runVars, ckVars>>
  /\ cpc = "tasksOutputDir"
  /\ \E perm \in BOOLEAN :
       LET o == resolveConfigPath(TasksOutputDirValue) IN
         /\ config' = [config EXCEPT !.tasksOutputDir = o]
         /\ EnsureDir(o, perm, "tasksOutputDir", "profiles")
  /\ UNCHANGED <<userConfig, extsChecked, dirsChecked>>

\* {...defaultProfileOpts, ...value}: only a given exts replaces the default []
MergeDefaults(prof) ==
  [key |-> prof.key, exts |-> IF prof.exts.kind = "omitted" THEN EmptyArray ELSE prof.exts]

\* lines 72-83
ProfilesValue ==
  IF ~config.profilesGiven
  THEN <<[key |-> "default", exts |-> EmptyArray]>>
  ELSE [i \in 1..Len(config.profiles) |-> MergeDefaults(config.profiles[i])]

DefaultProfiles ==
  /\ UNCHANGED <<runVars, ckVars>>
  /\ cpc = "profiles"
  /\ config' = [config EXCEPT !.profiles = ProfilesValue, !.profilesGiven = TRUE]
  /\ Continue(IF Len(ProfilesValue) = 0 THEN "profilesDir" ELSE "exts")
  /\ UNCHANGED <<userConfig, fsDirs, created, extsChecked, dirsChecked, denied>>

\* typeof paths.forEach !== 'function', for a value that has properties
LacksForEach(exts) == exts.kind # "array"

\* reading .forEach of null throws a TypeError before the test is made
ThrowsOnForEach(exts) == exts.kind = "null"

\* the entries of exts whose resolved path does not exist
BadPaths(exts) == {i \in 1..Len(exts.paths) : ~ExistsSync(resolveConfigPath(exts.paths[i]), fsDirs)}

\* the forEach of lines 93-101 up to its first missing path (all of it when none is missing)
ResolvedExts(exts) ==
  LET stop == IF BadPaths(exts) = {} THEN Len(exts.paths) + 1
              ELSE CHOOSE i \in BadPaths(exts) : \A j \in BadPaths(exts) : i <= j
  IN [kind |-> "array",
      paths |-> [i \in 1..Len(exts.paths) |->
                   IF i < stop THEN resolveConfigPath(exts.paths[i]) ELSE exts.paths[i]]]

\* lines 85-102, one profile per step
ValidateExts ==
  /\ UNCHANGED <<runVars, ckVars>>
  /\ cpc = "exts"
  /\ LET i == extsChecked + 1
         prof == config.profiles[i]
     IN /\ extsChecked' = i
        /\ IF ThrowsOnForEach(prof.exts)
           THEN /\ Fatal("TypeError", NoKey)
                /\ UNCHANGED config
           ELSE IF LacksForEach(prof.exts)
           THEN /\ Fatal("exts", prof.key)
                /\ UNCHANGED config
           ELSE /\ config' = [config EXCEPT !.profiles[i].exts = ResolvedExts(prof.exts)]
                /\ IF BadPaths(prof.exts) # {}
                   THEN Fatal("extsPath", prof.key)
                   ELSE Continue(IF i = Len(config.profiles) THEN "profilesDir" ELSE "exts")
  /\ UNCHANGED <<userConfig, fsDirs, created, dirsChecked, denied>>

\* lines 104-107
ProfilesDirValue ==
  IF config.profilesDir = Undef
  THEN config.tasksDir \o <<".", ".", "/", ".", "chrome-profiles">>
  ELSE config.profilesDir

\* lines 104-118
ResolveProfilesDir ==
  /\ UNCHANGED <<runVars, ckVars>>
  /\ cpc = "profilesDir"
  /\ \E perm \in BOOLEAN :
       LET d == resolveConfigPath(ProfilesDirValue) IN
         /\ config' = [config EXCEPT !.profilesDir = d]
         /\ EnsureDir(d, perm, "profilesDir",
                      IF Len(config.profiles) = 0 THEN "resolved" ELSE "profileDirs")
  /\ UNCHANGED <<userConfig, extsChecked, dirsChecked>>

\* `${config.profilesDir}/${key}`
ProfileDir(key) == config.profilesDir \o <<"/", key>>

\* lines 120-131, one profile per step
CreateProfileDir ==
  /\ UNCHANGED <<runVars, ckVars>>
  /\ cpc = "profileDirs"
  /\ \E perm \in BOOLEAN :
       LET i == dirsChecked + 1 IN
         /\ dirsChecked' = i
         /\ EnsureDir(ProfileDir(config.profiles[i].key), perm, "profileDir",
                      IF i = Len(config.profiles) THEN "resolved" ELSE "profileDirs")
  /\ UNCHANGED <<userConfig, config, extsChecked>>

CfgIdle ==
  /\ cpc = "idle"
  /\ config = [tasksDir |-> Undef, tasksOutputDir |-> Undef, profilesDir |-> Undef,
               profilesGiven |-> FALSE, profiles |-> <<>>]
  /\ userConfig = config
  /\ fsDirs = {}
  /\ created = <<>>
  /\ extsChecked = 0
  /\ dirsChecked = 0
  /\ denied = FALSE
  /\ cExited = FALSE
  /\ cExitStatus = 0
  /\ cErr = [kind |-> "-", cite |-> NoKey]

(***************************************************************************)
(* Specifications                                                          *)
(***************************************************************************)
InitRun ==
  /\ rpc = "parse"
  /\ exportedTasks = <<>>
  /\ exportedTasksNamespaces = {}
  /\ scanned = 0
  /\ request = <<>>
  /\ argvRun = [screenshot |-> FALSE, close |-> FALSE]
  /\ taskSet = <<>>
  /\ returned = FALSE
  /\ warned = FALSE
  /\ started = <<>>
  /\ running = NoTask
  /\ pendingShot = {}
  /\ pendingClose = {}
  /\ rExited = FALSE
  /\ rExitStatus = 0
  /\ rErrId = NoTask
  /\ CfgIdle
  /\ CkIdle

NextRun ==
  \/ ParseEntry
  \/ ParseEnd
  \/ RunNormalize
  \/ RunResume
  \/ ScreenshotDone
  \/ CloseDone

SpecRun == InitRun /\ [][NextRun]_vars

\* config = fs.existsSync(configFile) ? require(configFile) : {}
InitConfig ==
  /\ cpc = "tasksDir"
  /\ userConfig \in UserConfigs
  /\ config = userConfig
  /\ fsDirs \in Disks
  /\ created = <<>>
  /\ extsChecked = 0
  /\ dirsChecked = 0
  /\ denied = FALSE
  /\ cExited = FALSE
  /\ cExitStatus = 0
  /\ cErr = [kind |-> "-", cite |-> NoKey]
  /\ RunIdle
  /\ CkIdle

NextConfig ==
  \/ ResolveTasksDir
  \/ ResolveTasksOutputDir
  \/ DefaultProfiles
  \/ ValidateExts
  \/ ResolveProfilesDir
  \/ CreateProfileDir

SpecConfig == InitConfig /\ [][NextConfig]_vars

InitCookies ==
  /\ kpc = "start"
  /\ argvModes \in [ModeSet -> BOOLEAN]
  /\ cookieFile \in [ModeSet -> {"present", "absent", "locked"}]
  /\ prompted = <<>>
  /\ answers = <<>>
  /\ attempts = <<>>
  /\ kExited = FALSE
  /\ kExitStatus = 0
  /\ RunIdle
  /\ CfgIdle

NextCookies ==
  \/ ClearCookies
  \/ DelFileAnswer

SpecCookies == InitCookies /\ [][NextCookies]_vars

(***************************************************************************)
(* What the registry and a request mean, stated without the lookups above  *)
(***************************************************************************)
RegisteredNames == {exportedTasks[i].key : i \in 1..Len(exportedTasks)}

RegisteredLabels == {exportedTasks[i].namespace : i \in 1..Len(exportedTasks)} \ {NoNs}

Known(t) == t \in RegisteredNames \/ t \in RegisteredLabels

AllKnown == \A i \in 1..Len(request) : Known(request[i])

Unambiguous == RegisteredNames \cap RegisteredLabels = {}

\* directly requested task names, in request order
DirectNames == SelectSeq(request, LAMBDA t : t \in RegisteredNames)

RequestedLabels == {t \in Range(request) : t \in RegisteredLabels}

\* members of the requested namespaces, in registry scan order
Members == MapKeys(SelectSeq(exportedTasks, LAMBDA e : e.namespace \in RequestedLabels))

Combined == DirectNames \o Members

(***************************************************************************)
(* Claims about the run command (SpecRun)                                  *)
(***************************************************************************)
\* C1: for a request of known identifiers, the order warning is printed
\* exactly when the combined sequence (direct names, then the members of the
\* requested namespaces) holds a duplicate.  Stated here for registries in
\* which no name is also a label.
C1_WarnIffDuplicate ==
  (returned /\ AllKnown /\ Unambiguous) => (warned <=> ~NoDup(Combined))

\* C2: for a request of known identifiers the returned set is the direct
\* names together with the members of the requested namespaces; without
\* duplicates its order is the direct names in request order followed by the
\* members in registry scan order; an empty request gives the empty set.
C2_SetAndOrder ==
  (returned /\ AllKnown) =>
     /\ Range(taskSet) = Range(Combined)
     /\ NoDup(Combined) => taskSet = Combined
     /\ request = <<>> => taskSet = <<>>

\* C3: a request holding an identifier that is neither a registered task name
\* nor a registered namespace label ends the process with status 1 naming
\* such an identifier; no set is returned and no task is run.
C3_UnknownIsFatal ==
  (rpc \notin {"parse", "normalize"} /\ ~AllKnown) =>
     /\ rExited
     /\ rExitStatus = 1
     /\ rErrId \in Range(request)
     /\ ~Known(rErrId)
     /\ ~returned
     /\ started = <<>>

\* C4: no registered task name equals a registered namespace label, whatever
\* the order in which the entries were scanned.
C4_NamesAndLabelsDisjoint == RegisteredNames \cap RegisteredLabels = {}

\* C5: tasks run one at a time in the set's order, and a task's run starts
\* only when the screenshot and the browser close of the tasks before it have
\* completed.
C5_NextStartsAfterAllWork ==
  [][Len(started') > Len(started) =>
       /\ started' = SubSeq(taskSet', 1, Len(started'))
       /\ pendingShot' = {}
       /\ pendingClose' = {}]_vars

(***************************************************************************)
(* Claims about configuration resolution (SpecConfig)                      *)
(***************************************************************************)
\* where a path points, taken lexically from the working directory
Place(p) == NormalizeSegs(IF IsAbsolute(p) THEN Segments(p) ELSE Cwd \o Segments(p), <<>>)

\* C6: once resolution has finished without a fatal exit, tasksDir,
\* tasksOutputDir and profilesDir are absolute paths of existing directories.
C6_ResolvedPathsAbsoluteDirs ==
  cpc = "resolved" =>
    \A p \in {config.tasksDir, config.tasksOutputDir, config.profilesDir} :
      IsAbsolute(p) /\ IsDirectory(p, fsDirs)

NoUserConfig ==
  /\ userConfig.tasksDir = Undef
  /\ userConfig.tasksOutputDir = Undef
  /\ userConfig.profilesDir = Undef
  /\ ~userConfig.profilesGiven

ProfilesDirSet ==
  \/ cpc \in {"profileDirs", "resolved"}
  \/ cpc = "exited" /\ cErr.kind \in {"profilesDir", "profileDir"}

\* C7: a profilesDir the user omits resolves to the .chrome-profiles
\* directory next to the tasks directory; with no user configuration and the
\* default tasks directory on disk, resolution does not fail (unless the
\* operating system refuses to create a directory).
C7_DefaultProfilesDirIsSibling ==
  /\ (ProfilesDirSet /\ userConfig.profilesDir = Undef) =>
       Place(config.profilesDir) = Append(Parent(Place(config.tasksDir)), <<".", "chrome-profiles">>)
  /\ (NoUserConfig /\ TasksLoc \in fsDirs /\ ~denied) => ~cExited

IsSequenceInput(exts) == exts.kind \in {"array", "omitted"}

\* C9: a profile whose exts is not a sequence ends resolution with status 1
\* and a message citing that profile's key, before profilesDir or any profile
\* directory is created; an exts that is a sequence has each entry replaced
\* by its resolved path, and an entry whose resolved path does not exist is
\* fatal.
C9_NonSequenceExtsFatal ==
  \A i \in (IF userConfig.profilesGiven THEN 1..extsChecked ELSE {}) :
    LET given == userConfig.profiles[i].exts IN
    /\ ~IsSequenceInput(given) =>
         /\ cExited
         /\ cExitStatus = 1
         /\ cErr = [kind |-> "exts", cite |-> userConfig.profiles[i].key]
         /\ dirsChecked = 0
         /\ \A j \in 1..Len(created) : created[j] = Place(config.tasksOutputDir)
    /\ IsSequenceInput(given) =>
         IF \E k \in 1..Len(given.paths) : ~ExistsSync(resolveConfigPath(given.paths[k]), fsDirs)
         THEN cExited /\ cExitStatus = 1 /\ cErr = [kind |-> "extsPath", cite |-> userConfig.profiles[i].key]
         ELSE config.profiles[i].exts.paths =
                [k \in 1..Len(given.paths) |-> resolveConfigPath(given.paths[k])]

\* |profiles| of the resolved configuration
NumProfiles == IF userConfig.profilesGiven THEN Len(userConfig.profiles) ELSE 1

TasksDirNeverCreated == cpc # "tasksDir" => \A j \in 1..Len(created) : created[j] # Place(config.tasksDir)

\* C10 as claimed: resolution creates at most 1 + |profiles| directories and
\* never the tasks directory.
C10_AtMostOnePlusProfiles ==
  /\ Len(created) <= 1 + NumProfiles
  /\ TasksDirNeverCreated

\* C10 as amended: resolution creates at most 2 + |profiles| directories
\* (the tasks output directory, the profiles directory and one directory per
\* profile) and never the tasks directory; a missing tasksDir is fatal.
C10_AtMostTwoPlusProfiles ==
  /\ Len(created) <= 2 + NumProfiles
  /\ NoDup(created)
  /\ TasksDirNeverCreated
  /\ (cpc # "tasksDir" /\ ~ExistsSync(config.tasksDir, fsDirs)) => (cExited /\ cExitStatus = 1)

C10_Witness ==
  /\ cpc = "resolved"
  /\ NumProfiles = MaxProfiles
  /\ Len(created) = 2 + NumProfiles

(***************************************************************************)
(* Claims about clear-cookies (SpecCookies)                                *)
(***************************************************************************)
\* C8: a deletion is attempted only after 'y' was answered to that file's
\* prompt; a deletion that fails because the file does not exist does not end
\* the process, which goes on to the remaining requested modes; any other
\* failure ends it with status 1, and nothing more is prompted or deleted.
C8_ConfirmedDeletionOnly ==
  /\ \A i \in 1..Len(attempts) :
       \E j \in 1..Len(answers) : prompted[j] = attempts[i].mode /\ answers[j] = "y"
  /\ \A i \in 1..Len(attempts) :
       attempts[i].code = "ENOENT" => ~(kExited /\ i = Len(attempts))
  /\ kpc = "done" => Range(prompted) = {m \in ModeSet : argvModes[m]}
  /\ ~kExited => kpc \in {"start", "prompt", "done"}
  /\ \A i \in 1..Len(attempts) :
       attempts[i].code = "EACCES" =>
         /\ kExited
         /\ kExitStatus = 1
         /\ i = Len(attempts)
         /\ Len(answers) = Len(prompted)
         /\ prompted[Len(prompted)] = attempts[i].mode
  /\ kExited => (attempts # <<>> /\ attempts[Len(attempts)].code = "EACCES")

C8_Witness ==
  /\ kExited
  /\ Len(attempts) = 2
  /\ attempts[1].code = "ENOENT"
  /\ attempts[2].code = "EACCES"
  /\ Len(prompted) = 2

====
